---- MODULE Spec2Model ----
(***************************************************************************)
(* The watch/dispatch loop of muso's Watcher (src/lib/watcher.rs): the     *)
(* Root Index, the Ignore Set, root resolution, event classification and   *)
(* the dispatch to the sorting engine.                                     *)
(*                                                                         *)
(* A path is the sequence of its components, as std::path::Path sees it;   *)
(* an absolute path starts with the root component "/".  An Option is a    *)
(* sequence of length 0 (None) or 1 (Some).                                *)
(***************************************************************************)
EXTENDS Integers, Sequences, FiniteSets, TLC

VARIABLES
    config,     \* Watcher.config.libraries: library name -> set of folders
    roots,      \* Watcher.roots: watched root -> library name
    ignore,     \* Watcher.ignore
    fs,         \* the filesystem: path -> "none" | "file" | "dir"
    pc,         \* position of the single consumer thread
    result,     \* what watch() returned: "none" | "ok" | "err"
    chan,       \* the batch channel: "open" | "closed" (disconnected and drained)
    rxErr,      \* history: the last receive yielded Err(err)
    nEv,        \* events taken from the batches so far (bounded by MaxEvents)
    evInBatch,  \* events taken from the current batch
    evKind,     \* kind of the current event
    evLen,      \* number of paths of the current event
    cands,      \* indices into ev.paths the current for loop has still to yield
    todo,       \* report.new_paths entries the current sort_folder has still to yield
    last,       \* history: the outcome of the last candidate of this event
    pending,    \* history: what the sorts produced and no event has yet reported
    examined,   \* history: indices of the current event checked against the Ignore Set
    failed      \* history: some dispatch of the current batch failed

vars == <<config, roots, ignore, fs, pc, result, chan, rxErr, nEv, evInBatch, evKind,
          evLen, cands, todo, last, pending, examined, failed>>

----------------------------------------------------------------------------
\* Bounds of the model.

MaxEvents == 2
MaxCreatePaths == 2
MaxRenamePaths == 3
MaxNewPaths == 2
MaxChain == 5

----------------------------------------------------------------------------
\* Paths.

Slash == <<"/">>
M     == <<"/", "m">>
MF    == <<"/", "m", "f">>
MA    == <<"/", "m", "A">>
MAX   == <<"/", "m", "A", "X">>
MAXT  == <<"/", "m", "A", "X", "t">>

Paths == {Slash, M, MF, MA, MAX, MAXT}

None == <<>>
Some(x) == <<x>>

IsAbsolute(p) == Len(p) > 0 /\ p[1] = "/"

\* Path::parent is None for "/" and for the empty path.
HasParent(p) == Len(p) > 0 /\ p # Slash
Parent(p) == SubSeq(p, 1, Len(p) - 1)

\* Path::starts_with(base): base is a component-wise prefix of p.
StartsWith(p, base) == Len(base) <= Len(p) /\ SubSeq(p, 1, Len(base)) = base

\* PathBuf::join: an absolute argument replaces the receiver.
Join(base, p) == IF IsAbsolute(p) THEN p ELSE base \o p

\* Path::ancestors: the path, its parent, its parent's parent, ...
RECURSIVE Ancestors(_)
Ancestors(p) == IF HasParent(p) THEN <<p>> \o Ancestors(Parent(p)) ELSE <<p>>

IsFile(f, p) == p \in DOMAIN f /\ f[p] = "file"
IsDir(f, p) == p \in DOMAIN f /\ f[p] = "dir"
Exists(f, p) == p \in DOMAIN f /\ f[p] # "none"

----------------------------------------------------------------------------
\* The Watcher's helpers (src/lib/watcher.rs).

\* Watcher::new builds roots by inserting folder -> library name for every folder
\* of every library; a folder listed by two libraries keeps the name inserted
\* last, which depends on the iteration order of config.libraries.
\* The index is the set of its <<root, library name>> entries.
Folders(cfg) == UNION {l.folders : l \in cfg}
Entries(cfg) == {<<f, l.name>> : f \in Folders(cfg), l \in cfg}
RootIndexes(cfg) ==
    {r \in SUBSET Entries(cfg) :
        /\ \A e \in r : \E l \in cfg : l.name = e[2] /\ e[1] \in l.folders
        /\ \A f \in Folders(cfg) : Cardinality({e \in r : e[1] = f}) = 1}

Keys(r) == {e[1] : e \in r}

\* root_for: the first ancestor (the path itself first) that is a key of roots.
RECURSIVE FirstKey(_, _)
FirstKey(keys, anc) ==
    IF anc = <<>> THEN None
    ELSE IF Head(anc) \in keys THEN Some(Head(anc))
    ELSE FirstKey(keys, Tail(anc))

\* A lookup that walks the ancestors from the filesystem root downwards.
RECURSIVE LastKey(_, _)
LastKey(keys, anc) ==
    IF anc = <<>> THEN None
    ELSE IF anc[Len(anc)] \in keys THEN Some(anc[Len(anc)])
    ELSE LastKey(keys, SubSeq(anc, 1, Len(anc) - 1))

RootForOutermost(keys, p) == LastKey(keys, Ancestors(p))

\* A lookup that starts at the parent of the path.
RootForSkipsSelf(keys, p) == FirstKey(keys, Tail(Ancestors(p)))

RootFor(keys, p) == FirstKey(keys, Ancestors(p))

\* is_ignored: an exact match for an existing file; otherwise some entry that is
\* a directory and starts with the checked path.
IsIgnored(ign, f, p) ==
    IF IsFile(f, p) THEN p \in ign
    ELSE \E ignored \in ign : IsDir(f, ignored) /\ StartsWith(ignored, p)

\* Variants of ignore_path: one that records the path alone, one that guards the
\* parent even when it is the root, one that records the guard alone.
IgnorePathLeafOnly(ign, p, root) ==
    IF ~HasParent(p) THEN [ok |-> FALSE, set |-> ign]
    ELSE [ok |-> TRUE, set |-> ign \cup {Join(root, p)}]

IgnorePathAlwaysParent(ign, p, root) ==
    IF ~HasParent(p) THEN [ok |-> FALSE, set |-> ign]
    ELSE [ok |-> TRUE, set |-> ign \cup {Parent(p), Join(root, p)}]

IgnorePathParentOnly(ign, p, root) ==
    IF ~HasParent(p) THEN [ok |-> FALSE, set |-> ign]
    ELSE [ok |-> TRUE, set |-> IF Parent(p) # root THEN ign \cup {Parent(p)} ELSE ign]

\* ignore_path: Err(InvalidParent) when the path has no parent; otherwise inserts
\* the parent unless it is the root, then root.join(path).
IgnorePath(ign, p, root) ==
    IF ~HasParent(p) THEN [ok |-> FALSE, set |-> ign]
    ELSE [ok |-> TRUE,
          set |-> (IF Parent(p) # root THEN ign \cup {Parent(p)} ELSE ign)
                      \cup {Join(root, p)}]

\* The iterators of the two for loops, over the indices of ev.paths.
Indices(n) == [i \in 1..n |-> i - 1]

RECURSIVE Skip(_, _)
Skip(s, k) == IF k = 0 \/ s = <<>> THEN s ELSE Skip(Tail(s), k - 1)

RECURSIVE StepBy(_, _)
StepBy(s, k) ==
    IF s = <<>> THEN <<>> ELSE <<Head(s)>> \o StepBy(Skip(Tail(s), k - 1), k)

SkipCount == 1
StepStride == 2

CreateCandidates(n) == Indices(n)
\* A rename loop that starts at the first path of the event.
RenameCandidatesNoSkip(n) == StepBy(Indices(n), StepStride)

RenameCandidates(n) == StepBy(Skip(Indices(n), SkipCount), StepStride)

----------------------------------------------------------------------------
\* The filesystem as the sorting engine and the user change it.

\* The tree at p is gone.
RemoveTree(f, p) == [q \in Paths |-> IF StartsWith(q, p) THEN "none" ELSE f[q]]

\* d can come to exist as kind k: no proper ancestor is a file, and d is free or
\* already of that kind.
CanCreate(f, d, k) ==
    /\ \A q \in Paths : (StartsWith(d, q) /\ q # d) => f[q] # "file"
    /\ f[d] = "none" \/ f[d] = k
    /\ k = "file" => \A q \in Paths : (StartsWith(q, d) /\ q # d) => f[q] = "none"

\* d exists as kind k, below directories.
Create(f, d, k) ==
    [q \in Paths |-> IF q = d THEN k
                     ELSE IF StartsWith(d, q) THEN "dir"
                     ELSE f[q]]

\* The filesystem when watch() starts: every watched root is an existing directory.
RECURSIVE MakeDirs(_, _)
MakeDirs(f, ds) ==
    IF ds = {} THEN f
    ELSE LET d == CHOOSE x \in ds : TRUE
         IN MakeDirs(Create(f, d, "dir"), ds \ {d})

EmptyFs == [q \in Paths |-> IF q = Slash THEN "dir" ELSE "none"]

----------------------------------------------------------------------------
\* Configurations: no library, a library without folders, one root, and nested
\* roots in two libraries.

Lib(n, fo) == [name |-> n, folders |-> fo]

Configs ==
    { {},
      {Lib("a", {})},
      {Lib("a", {M})},
      {Lib("a", {M}), Lib("b", {MA})} }

EventKinds == {"Create", "RenameBoth", "Other", "RenameFrom", "RenameTo",
               "ModifyData", "Remove", "Access"}
DroppedKinds == EventKinds \ {"Create", "RenameBoth", "Other"}
Kinds == {"file", "dir"}

\* The sorting engine builds its destinations inside the root it is given; a
\* report may also list a path that has no parent, the case ignore_path rejects.
Inside(root) == {d \in Paths : StartsWith(d, root) /\ d # root}
Reportable(root) == Inside(root) \cup {d \in Paths : ~HasParent(d)}

\* What a sort that produced d under root r is to leave in the Ignore Set.
ProducedBy(d, r) == {d} \cup (IF HasParent(d) /\ Parent(d) # r THEN {Parent(d)} ELSE {})

\* The outcome of a candidate: the path if it was suppressed, how the loop
\* classified it, the root move_files resolved, and whether the path was one the
\* watcher had produced itself.
NoLast == [path |-> None, verdict |-> "none", root |-> None, origin |-> "none"]
Origin(p) == IF p \in pending THEN "self" ELSE "user"
Outcome(p, v, r) ==
    [path |-> IF v = "ignored" THEN Some(p) ELSE None, verdict |-> v, root |-> r,
     origin |-> Origin(p)]

Init ==
    /\ config \in Configs
    /\ roots \in RootIndexes(config)
    /\ ignore = {}
    /\ fs = MakeDirs(EmptyFs, Keys(roots))
    /\ pc = "watch"
    /\ result = "none"
    /\ chan = "open"
    /\ rxErr = FALSE
    /\ nEv = 0
    /\ evInBatch = 0
    /\ evKind = "none"
    /\ evLen = 0
    /\ cands = <<>>
    /\ todo = 0
    /\ last = NoLast
    /\ pending = {}
    /\ examined = <<>>
    /\ failed = FALSE

----------------------------------------------------------------------------
\* watch()

\* A watch() that logs "No directories to watch!" and goes on.
WatchNoLibrariesGoesOn ==
    /\ pc = "watch"
    /\ config = {}
    /\ pc' = "loop"
    /\ UNCHANGED <<config, roots, ignore, fs, result, chan, rxErr, nEv, evInBatch, evKind,
                   evLen, cands, todo, last, pending, examined, failed>>

WatchNoLibraries ==
    /\ pc = "watch"
    /\ config = {}
    /\ pc' = "returned"
    /\ result' = "ok"
    /\ UNCHANGED <<config, roots, ignore, fs, chan, rxErr, nEv, evInBatch, evKind, evLen,
                   cands, todo, last, pending, examined, failed>>

\* new_debouncer(..)? or watch(root, ..)? fails.
WatchSubscribeError ==
    /\ pc = "watch"
    /\ config # {}
    /\ pc' = "returned"
    /\ result' = "err"
    /\ UNCHANGED <<config, roots, ignore, fs, chan, rxErr, nEv, evInBatch, evKind, evLen,
                   cands, todo, last, pending, examined, failed>>

WatchStart ==
    /\ pc = "watch"
    /\ config # {}
    /\ pc' = "loop"
    /\ UNCHANGED <<config, roots, ignore, fs, result, chan, rxErr, nEv, evInBatch, evKind,
                   evLen, cands, todo, last, pending, examined,
                   failed>>

----------------------------------------------------------------------------
\* watchloop(): loop { for result in &rx { .. } }

EnterFor ==
    /\ pc = "loop"
    /\ pc' = "recv"
    /\ UNCHANGED <<config, roots, ignore, fs, result, chan, rxErr, nEv, evInBatch, evKind,
                   evLen, cands, todo, last, pending, examined,
                   failed>>

\* The iterator over &rx ends when the channel is disconnected; the for loop is
\* the whole body of the outer loop, which has no break.
RecvDisconnected ==
    /\ pc = "recv"
    /\ chan = "closed"
    /\ pc' = "loop"
    /\ UNCHANGED <<config, roots, ignore, fs, result, chan, rxErr, nEv, evInBatch, evKind,
                   evLen, cands, todo, last, pending, examined,
                   failed>>

\* A loop that returns the error of the event source.
RecvErrorFatal ==
    /\ pc = "recv"
    /\ chan = "open"
    /\ rxErr' = TRUE
    /\ pc' = "returned"
    /\ result' = "err"
    /\ UNCHANGED <<config, roots, ignore, fs, chan, nEv, evInBatch, evKind, evLen,
                   cands, todo, last, pending, examined, failed>>

\* Err(err) => { log::error!(..); continue; }
RecvError ==
    /\ pc = "recv"
    /\ chan = "open"
    /\ rxErr' = TRUE
    /\ UNCHANGED <<config, roots, ignore, fs, pc, result, chan, nEv, evInBatch,
                   evKind, evLen, cands, todo, last, pending, examined, failed>>

\* Ok(event): a batch of at least one event; how many it holds shows as the
\* for loop over it goes on.
RecvBatch ==
    /\ pc = "recv"
    /\ chan = "open"
    /\ nEv < MaxEvents
    /\ rxErr' = FALSE
    /\ evInBatch' = 0
    /\ pc' = "event"
    /\ UNCHANGED <<config, roots, ignore, fs, result, chan, nEv, evKind, evLen,
                   cands, todo, last, pending, examined, failed>>

EndBatch ==
    /\ pc = "event"
    /\ evInBatch > 0
    /\ pc' = "recv"
    /\ evInBatch' = 0
    /\ failed' = FALSE
    /\ UNCHANGED <<config, roots, ignore, fs, result, chan, rxErr, nEv, evKind,
                   evLen, cands, todo, last, pending, examined>>

\* for ev in event: match ev.event.kind
StartEvent(kind, n, cs) ==
    /\ pc = "event"
    /\ nEv < MaxEvents
    /\ nEv' = nEv + 1
    /\ evInBatch' = evInBatch + 1
    /\ evKind' = kind
    /\ evLen' = n
    /\ cands' = cs
    /\ examined' = <<>>
    /\ pc' = IF cs = <<>> THEN "endev" ELSE "cand"
    /\ UNCHANGED <<config, roots, ignore, fs, result, chan, rxErr, todo, last,
                   pending, failed>>

\* The event is done with: the for loop over the batch goes on.
FinishEvent ==
    /\ pc = "endev"
    /\ pc' = "event"
    /\ evKind' = "none"
    /\ evLen' = 0
    /\ last' = NoLast
    /\ examined' = <<>>
    /\ UNCHANGED <<config, roots, ignore, fs, result, chan, rxErr, nEv, evInBatch, cands,
                   todo, pending, failed>>

\* EventKind::Other => continue, and _ => {}: the paths are never read.
EventOther(n) == StartEvent("Other", n, <<>>)
EventCreate(n) == StartEvent("Create", n, CreateCandidates(n))
EventRename(n) == StartEvent("RenameBoth", n, RenameCandidates(n))
\* A wildcard arm that takes the paths as the create arm does.
EventDroppedAsCreate(kind, n) == StartEvent(kind, n, CreateCandidates(n))

EventDropped(kind, n) == StartEvent(kind, n, <<>>)

----------------------------------------------------------------------------
\* One candidate path of the current event: is_ignored, then move_files.  The
\* path at the iterator's index is whatever the event carries there.

\* A loop that gives the event up at this path.
AdvanceBreak ==
    /\ cands' = <<>>
    /\ pc' = "endev"

\* The for loop goes on to its next path, or the event is done.
Advance ==
    /\ cands' = Tail(cands)
    /\ pc' = IF Tail(cands) = <<>> THEN "endev" ELSE "cand"

Taken(p) ==
    /\ pc = "cand"
    /\ examined' = Append(examined, Head(cands))

\* if self.is_ignored(path) { self.ignore.remove(path); continue; }
Suppress(p) ==
    /\ Taken(p)
    /\ IsIgnored(ignore, fs, p)
    /\ ignore' = ignore \ {p}
    /\ last' = Outcome(p, "ignored", None)
    /\ pending' = pending \ {p}
    /\ Advance
    /\ UNCHANGED <<config, roots, fs, result, chan, rxErr, nEv, evInBatch, evKind, evLen,
                   todo, failed>>

\* A loop that passes the error of move_files on with ?.
DispatchInvalidRootFatal(p) ==
    /\ Taken(p)
    /\ ~IsIgnored(ignore, fs, p)
    /\ RootFor(Keys(roots), p) = None
    /\ last' = Outcome(p, "invalidroot", None)
    /\ pending' = pending \ {p}
    /\ failed' = TRUE
    /\ pc' = "returned"
    /\ result' = "err"
    /\ UNCHANGED <<config, roots, ignore, fs, chan, rxErr, nEv, evInBatch, evKind, evLen,
                   cands, todo>>

\* move_files: root_for(path) is None.
DispatchInvalidRoot(p) ==
    /\ Taken(p)
    /\ ~IsIgnored(ignore, fs, p)
    /\ RootFor(Keys(roots), p) = None
    /\ last' = Outcome(p, "invalidroot", None)
    /\ pending' = pending \ {p}
    /\ failed' = TRUE
    /\ Advance
    /\ UNCHANGED <<config, roots, ignore, fs, result, chan, rxErr, nEv, evInBatch, evKind,
                   evLen, todo>>

\* A move_files that records the path before it looks at the engine's result.
DispatchSortErrorRecords(p) ==
    /\ Taken(p)
    /\ ~IsIgnored(ignore, fs, p)
    /\ RootFor(Keys(roots), p) # None
    /\ last' = Outcome(p, "failed", RootFor(Keys(roots), p))
    /\ pending' = pending \ {p}
    /\ failed' = TRUE
    /\ ignore' = ignore \cup {p}
    /\ Advance
    /\ UNCHANGED <<config, roots, fs, result, chan, rxErr, nEv, evInBatch, evKind,
                   evLen, todo>>

\* move_files: sort_file or sort_folder returns Err(e).
DispatchSortError(p) ==
    /\ Taken(p)
    /\ ~IsIgnored(ignore, fs, p)
    /\ RootFor(Keys(roots), p) # None
    /\ last' = Outcome(p, "failed", RootFor(Keys(roots), p))
    /\ pending' = pending \ {p}
    /\ failed' = TRUE
    /\ Advance
    /\ UNCHANGED <<config, roots, ignore, fs, result, chan, rxErr, nEv, evInBatch, evKind,
                   evLen, todo>>

\* move_files: the path is no directory and sort_file moves the file to d.
DispatchSortFile(p, d) ==
    /\ Taken(p)
    /\ ~IsIgnored(ignore, fs, p)
    /\ RootFor(Keys(roots), p) # None
    /\ IsFile(fs, p)
    /\ d \in Inside(RootFor(Keys(roots), p)[1])
    /\ CanCreate(RemoveTree(fs, p), d, "file")
    /\ LET root == RootFor(Keys(roots), p)[1]
           r == IgnorePath(ignore, d, root)
       IN /\ fs' = Create(RemoveTree(fs, p), d, "file")
          /\ ignore' = r.set
          /\ last' = Outcome(p, IF r.ok THEN "sorted" ELSE "parenterr", Some(root))
          /\ pending' = (pending \ {p}) \cup (IF r.ok THEN ProducedBy(d, root) ELSE {})
          /\ failed' = (failed \/ ~r.ok)
    /\ Advance
    /\ UNCHANGED <<config, roots, result, chan, rxErr, nEv, evInBatch, evKind, evLen, todo>>

\* move_files: the path is a directory and sort_folder returns a report of n new
\* paths; the sorted directory is gone (moved, or emptied and removed) or stays.
DispatchSortFolder(p, n, keep) ==
    /\ Taken(p)
    /\ ~IsIgnored(ignore, fs, p)
    /\ RootFor(Keys(roots), p) # None
    /\ IsDir(fs, p)
    /\ ~keep => \A k \in Keys(roots) : ~StartsWith(k, p)
    /\ fs' = IF keep THEN fs ELSE RemoveTree(fs, p)
    /\ last' = Outcome(p, IF n = 0 THEN "sorted" ELSE "recording",
                       RootFor(Keys(roots), p))
    /\ pending' = pending \ {p}
    /\ todo' = n
    /\ IF n = 0 THEN Advance ELSE pc' = "record" /\ cands' = cands
    /\ UNCHANGED <<config, roots, ignore, result, chan, rxErr, nEv, evInBatch, evKind,
                   evLen, failed>>

\* for new_path in report.new_paths { self.ignore_path(new_path, &root)?; }
NextNew ==
    /\ todo' = todo - 1
    /\ IF todo = 1 THEN Advance ELSE pc' = pc /\ cands' = cands

RecordNew(d, k) ==
    /\ pc = "record"
    /\ last.verdict = "recording"
    /\ d \in Reportable(last.root[1])
    /\ CanCreate(fs, d, k)
    /\ IgnorePath(ignore, d, last.root[1]).ok
    /\ fs' = Create(fs, d, k)
    /\ ignore' = IgnorePath(ignore, d, last.root[1]).set
    /\ last' = [last EXCEPT !.verdict = IF todo = 1 THEN "sorted" ELSE "recording"]
    /\ pending' = pending \cup ProducedBy(d, last.root[1])
    /\ NextNew
    /\ UNCHANGED <<config, roots, result, chan, rxErr, nEv, evInBatch, evKind, evLen,
                   examined, failed>>

\* ignore_path fails: the ? returns from move_files at once.
RecordNoParent(d, k) ==
    /\ pc = "record"
    /\ last.verdict = "recording"
    /\ d \in Reportable(last.root[1])
    /\ CanCreate(fs, d, k)
    /\ ~IgnorePath(ignore, d, last.root[1]).ok
    /\ fs' = Create(fs, d, k)
    /\ last' = [last EXCEPT !.verdict = "parenterr"]
    /\ failed' = TRUE
    /\ NextNew
    /\ UNCHANGED <<config, roots, ignore, result, chan, rxErr, nEv, evInBatch, evKind,
                   evLen, pending, examined>>

\* The rest of the report after the early return: on disk, never recorded.
DropNew(d, k) ==
    /\ pc = "record"
    /\ last.verdict = "parenterr"
    /\ d \in Reportable(last.root[1])
    /\ CanCreate(fs, d, k)
    /\ fs' = Create(fs, d, k)
    /\ NextNew
    /\ UNCHANGED <<config, roots, ignore, result, chan, rxErr, nEv, evInBatch, evKind,
                   evLen, last, pending, examined, failed>>

----------------------------------------------------------------------------
\* The environment: the event source is closed; the user drops or removes a
\* path while the loop waits for the next batch.

CloseSource ==
    /\ pc = "recv"
    /\ chan = "open"
    /\ chan' = "closed"
    /\ UNCHANGED <<config, roots, ignore, fs, pc, result, rxErr, nEv, evInBatch, evKind,
                   evLen, cands, todo, last, pending, examined,
                   failed>>

UserCreate(p, k) ==
    /\ pc = "recv"
    /\ chan = "open"
    /\ fs[p] = "none"
    /\ CanCreate(fs, p, k)
    /\ fs' = Create(fs, p, k)
    /\ UNCHANGED <<config, roots, ignore, pc, result, chan, rxErr, nEv, evInBatch, evKind,
                   evLen, cands, todo, last, pending, examined,
                   failed>>

UserRemove(p) ==
    /\ pc = "recv"
    /\ chan = "open"
    /\ Exists(fs, p)
    /\ \A k \in Keys(roots) : ~StartsWith(k, p)
    /\ fs' = RemoveTree(fs, p)
    /\ UNCHANGED <<config, roots, ignore, pc, result, chan, rxErr, nEv, evInBatch, evKind,
                   evLen, cands, todo, last, pending, examined,
                   failed>>

----------------------------------------------------------------------------

\* Every step of watch() and of the loop but the start of an event.
Steps ==
    \/ WatchNoLibraries
    \/ WatchSubscribeError
    \/ WatchStart
    \/ EnterFor
    \/ RecvDisconnected
    \/ RecvError
    \/ RecvBatch
    \/ EndBatch
    \/ FinishEvent
    \/ \E p \in Paths : Suppress(p)
    \/ \E p \in Paths : DispatchInvalidRoot(p)
    \/ \E p \in Paths : DispatchSortError(p)
    \/ \E p \in Paths, d \in Paths : DispatchSortFile(p, d)
    \/ \E p \in Paths, n \in 0..MaxNewPaths, keep \in BOOLEAN : DispatchSortFolder(p, n, keep)
    \/ \E d \in Paths, k \in Kinds : RecordNew(d, k)
    \/ \E d \in Paths, k \in Kinds : RecordNoParent(d, k)
    \/ \E d \in Paths, k \in Kinds : DropNew(d, k)

Environment ==
    \/ CloseSource
    \/ \E p \in Paths, k \in Kinds : UserCreate(p, k)
    \/ \E p \in Paths : UserRemove(p)

Next ==
    \/ Steps
    \/ Environment
    \/ EventOther(MaxCreatePaths)
    \/ \E n \in 0..MaxCreatePaths : EventCreate(n)
    \/ \E n \in 0..MaxRenamePaths : EventRename(n)
    \/ \E kind \in DroppedKinds : EventDropped(kind, MaxCreatePaths)

Spec == Init /\ [][Next]_vars

\* The loop fed with rename events only, of up to MaxChain paths: the coalesced
\* chains of moves.
NextChain ==
    \/ Steps
    \/ Environment
    \/ \E n \in 0..MaxChain : EventRename(n)

SpecChain == Init /\ [][NextChain]_vars

-----------------------------------------------------------------------------
\* Properties.

\* The candidate p is handed to move_files, whatever comes of it.
Dispatched(p) ==
    \/ DispatchInvalidRoot(p)
    \/ DispatchSortError(p)
    \/ \E d \in Paths : DispatchSortFile(p, d)
    \/ \E n \in 0..MaxNewPaths, keep \in BOOLEAN : DispatchSortFolder(p, n, keep)

\* The candidates of an event of kind k with n paths, as the loops take them.
AllCandidates(k, n) ==
    IF k = "Create" THEN CreateCandidates(n)
    ELSE IF k = "RenameBoth" THEN RenameCandidates(n)
    ELSE <<>>

C2_OneShot ==
    [][\A p \in ignore : Suppress(p) => ~IsIgnored(ignore', fs', p)]_vars

\* C3: once a directory sort has recorded an existing directory d, every path
\* nested under d is classified as ignored.
C3_NestedSuppressed ==
    [][\A d \in Paths :
          RecordNew(d, "dir") =>
              \A q \in Paths :
                  (q # d /\ StartsWith(q, d)) => IsIgnored(ignore', fs', q)]_vars

\* C4 as stated: root_for(P) is R for every configured root R that P lies
\* under, nested roots included, and none when P lies under no root.
C4_EveryContainingRoot ==
    \A P \in Paths :
        /\ \A R \in Keys(roots) :
               StartsWith(P, R) => RootFor(Keys(roots), P) = Some(R)
        /\ (\A R \in Keys(roots) : ~StartsWith(P, R)) => RootFor(Keys(roots), P) = None

\* C4: root_for(P) is the configured root R that P lies under with no other
\* configured root between R and P, and none when P lies under no root.
C4_RootResolution ==
    \A P \in Paths :
        /\ \A R \in Keys(roots) :
               (/\ StartsWith(P, R)
                /\ \A R2 \in Keys(roots) \ {R} : ~(StartsWith(R2, R) /\ StartsWith(P, R2)))
                   => RootFor(Keys(roots), P) = Some(R)
        /\ (\A R \in Keys(roots) : ~StartsWith(P, R)) => RootFor(Keys(roots), P) = None

\* C4 happens: with the nested roots /m and /m/A, a directory under /m/A was
\* dispatched and its root resolved to /m/A.
C4_Witness ==
    /\ Keys(roots) = {M, MA}
    /\ pc = "record"
    /\ last.verdict = "recording"
    /\ last.root = Some(MA)
    /\ examined = <<0>>

\* The odd indices 1, 3, 5, ... below n, in increasing order.
OddIndices(n) == [j \in 1..(n \div 2) |-> 2 * j - 1]

\* C5: of a rename event with the paths p0, p1, ..., the candidates examined are
\* the paths at the odd indices, in that order, and no others: the paths taken
\* so far and the paths still to take are together <<1, 3, 5, ...>>, and an
\* event with fewer than two paths has no candidate.
C5_RenameDestinations ==
    (evKind = "RenameBoth" /\ pc \in {"cand", "record", "endev"}) =>
        /\ examined \o (IF pc = "record" THEN Tail(cands) ELSE cands) = OddIndices(evLen)
        /\ evLen < 2 => (examined = <<>> /\ cands = <<>>)
        /\ pc = "endev" => cands = <<>>

\* C5 happens: a rename event with five paths is done and the paths at the
\* indices 1 and 3 were the ones examined.
C5_Witness ==
    /\ evKind = "RenameBoth"
    /\ evLen = 5
    /\ pc = "endev"
    /\ examined = <<1, 3>>

\* C6: after a dispatch failed (no root, or the engine's error) the loop is
\* still running, no path of the event is skipped, and every entry recorded by
\* a successful dispatch whose event is outstanding is in the Ignore Set.
C6_FailureIsolated ==
    failed =>
        /\ pc \in {"cand", "record", "endev", "event"}
        /\ result = "none"
        /\ pc \in {"cand", "record", "endev"} =>
               examined \o (IF pc = "record" THEN Tail(cands) ELSE cands)
                   = AllCandidates(evKind, evLen)
        /\ pending \subseteq ignore

\* C6 happens: the first event of a batch failed in dispatch, and the second
\* event of the same batch was sorted and its destination recorded.
C6_Witness ==
    /\ failed
    /\ nEv = 2
    /\ evInBatch = 2
    /\ pc = "endev"
    /\ last.verdict = "sorted"
    /\ pending = {MA, MAX}
    /\ ignore = {MA, MAX}

\* C7: every entry of the Ignore Set is removed again at the latest when the
\* event for its path has been delivered and classified: a step that classifies
\* a candidate path leaves that path out of the set.
C7_EntriesTransient ==
    [][\A p \in ignore : (Suppress(p) \/ Dispatched(p)) => p \notin ignore']_vars

\* C8: when the event source is closed the receive ends and so does the watch
\* loop: the step taken on the closed channel returns from watch().
C8_ReturnsOnClosure ==
    [][(pc = "recv" /\ chan = "closed") => pc' = "returned"]_vars

\* C9: recording the new path d under the root r leaves the Ignore Set as it
\* was plus d, plus the parent of d when that parent is not r; nothing is
\* removed.  A recording step of d leaves d on disk and a file sort of p to d
\* starts from the file p and leaves the file d: steps without these marks are
\* passed over before the action itself is looked at.
C9_MarkProduced ==
    [][/\ (pc = "record" /\ last.verdict = "recording" /\ last'.verdict # "parenterr") =>
              \A d \in Paths :
                  \/ ignore' = ignore \cup ProducedBy(d, last.root[1])
                  \/ ~Exists(fs', d)
                  \/ \A k \in Kinds : ~RecordNew(d, k)
       /\ (pc = "cand" /\ last'.verdict = "sorted") =>
              \A p \in Paths, d \in Paths :
                  \/ ~IsFile(fs, p)
                  \/ ~IsFile(fs', d)
                  \/ ignore' = ignore \cup ProducedBy(d, last'.root[1])
                  \/ ~DispatchSortFile(p, d)]_vars

\* C9 happens: under the root /m, /m/f was recorded with no guard and /m/A/X
\* with the guard /m/A.
C9_Witness ==
    /\ Keys(roots) = {M}
    /\ last.verdict = "sorted"
    /\ nEv = 1
    /\ ignore = {MF, MA, MAX}
    /\ pending = ignore

\* C10: the paths of a batch are taken one at a time in delivery order, and
\* whenever the next one is about to be classified, every entry recorded by the
\* dispatches before it is in the Ignore Set and, if it exists, is classified
\* as ignored.
C10_SequentialVisibility ==
    pc = "cand" =>
        /\ examined \o cands = AllCandidates(evKind, evLen)
        /\ \A x \in pending : x \in ignore /\ (Exists(fs, x) => IsIgnored(ignore, fs, x))

\* C10 happens: in the very first event, the first path was sorted to /m/A/X and
\* the second path, /m/A/X itself, was suppressed.
C10_Witness ==
    /\ nEv = 1
    /\ evKind = "Create"
    /\ evLen = 2
    /\ pc = "endev"
    /\ examined = <<0, 1>>
    /\ last.verdict = "ignored"
    /\ last.origin = "self"
    /\ last.path = Some(MAX)
    /\ ignore = {MA}

\* C11: with zero libraries the only step watch() ever takes is the return of
\* success: nothing is subscribed to (the subscribing steps are not taken), the
\* loop is not entered, and no event is classified or dispatched.
C11_EmptyConfiguration ==
    [][config = {} =>
          /\ pc = "watch"
          /\ pc' = "returned"
          /\ result' = "ok"
          /\ ~WatchStart
          /\ ~WatchSubscribeError
          /\ nEv' = 0
          /\ last' = NoLast
          /\ ignore' = {}]_vars

\* C11 happens: watch() has returned success for the configuration without
\* libraries.
C11_Witness ==
    /\ config = {}
    /\ roots = {}
    /\ pc = "returned"
    /\ result = "ok"
    /\ nEv = 0

\* The entry e satisfies is_ignored's match for the path p.
Matches(f, e, p) ==
    IF IsFile(f, p) THEN e = p ELSE IsDir(f, e) /\ StartsWith(e, p)

\* C12: whenever a candidate is found ignored, the entry that satisfied the
\* match is removed in the same step and the set loses exactly that entry, also
\* when that entry is a directory other than the candidate.
C12_ConsumesMatchingEntry ==
    [][\A p \in Paths :
          Suppress(p) => \E e \in ignore : Matches(fs, e, p) /\ ignore' = ignore \ {e}]_vars

\* C13: a path that is a directory or does not exist is ignored exactly when
\* some entry is an existing directory that is the path or one of its
\* ancestors; a descendant entry does not make it ignored.
C13_AncestorOrSelf ==
    \A p \in Paths :
        ~IsFile(fs, p) =>
            (IsIgnored(ignore, fs, p)
                <=> \E e \in ignore : IsDir(fs, e) /\ StartsWith(p, e))

\* C14: when the Root Index is empty at the start of watch(), watch() ends
\* without entering the running loop.
C14_EmptyRootIndex ==
    Keys(roots) = {} => pc \in {"watch", "returned"}

\* No key of the Root Index is the path p or one of its ancestors.
UnderNoRoot(p) == \A R \in Keys(roots) : ~StartsWith(p, R)

\* C15: a candidate under no root that is dispatched fails with InvalidRoot:
\* neither sort_file nor sort_folder runs (the filesystem is as it was), the
\* Ignore Set is unchanged, watch() does not return and the for loop goes on
\* with its next path.
C15_InvalidRoot ==
    [][pc = "cand" =>
          \A p \in Paths :
              (UnderNoRoot(p) /\ ~IsIgnored(ignore, fs, p) /\ Dispatched(p)) =>
                  /\ last'.verdict = "invalidroot"
                  /\ fs' = fs
                  /\ ignore' = ignore
                  /\ result' = "none"
                  /\ cands' = Tail(cands)
                  /\ pc' = IF cands' = <<>> THEN "endev" ELSE "cand"]_vars

\* C15 happens: with the root /m, the first path of a create event lay under no
\* root and failed; the second path was then sorted.
C15_Witness ==
    /\ Keys(roots) = {M}
    /\ nEv = 1
    /\ evKind = "Create"
    /\ examined = <<0, 1>>
    /\ failed
    /\ last.verdict = "sorted"
    /\ pending = {MF}
    /\ ignore = {MF}

NonActionable == DroppedKinds \cup {"Other"}

\* C16: an event of a kind that is neither create nor rename-pair has no
\* candidate: starting it looks nothing up, removes nothing and dispatches
\* nothing, whatever the Ignore Set holds; of a create event every path is a
\* candidate, in order.
C16_NonActionableNoOp ==
    [][/\ evKind' \in NonActionable =>
              /\ pc' = "endev"
              /\ cands' = <<>>
              /\ examined' = <<>>
              /\ ignore' = ignore
              /\ pending' = pending
              /\ fs' = fs
              /\ last' = NoLast
       /\ (evKind' = "Create" /\ pc' \in {"cand", "endev"}) =>
              examined' \o cands' = Indices(evLen')]_vars

\* C16 happens: a remove event with paths is done with while /m/A and /m/A/X
\* are in the Ignore Set, and nothing was looked up.
C16_Witness ==
    /\ evKind = "Remove"
    /\ evLen = MaxCreatePaths
    /\ pc = "endev"
    /\ examined = <<>>
    /\ ignore = {MA, MAX}
    /\ pending = {MA, MAX}

\* C17: the step that receives a transport error dispatches nothing, leaves the
\* Ignore Set and the filesystem alone and stays in the for loop over the
\* channel, where the next batch is received.
C17_TransportErrorNotFatal ==
    [][(~rxErr /\ rxErr') =>
          /\ ignore' = ignore
          /\ fs' = fs
          /\ last' = last
          /\ nEv' = nEv
          /\ result' = "none"
          /\ pc' = "recv"
          /\ chan' = "open"]_vars

\* C17 happens: a transport error has come after a batch that left entries in
\* the Ignore Set, and the loop is at the receive with another batch to come.
C17_Witness ==
    /\ rxErr
    /\ pc = "recv"
    /\ nEv = 1
    /\ nEv < MaxEvents
    /\ result = "none"
    /\ ignore = {MA, MAX}

\* C18: every new path of a directory sort's report that has a parent is in
\* the Ignore Set once the loop over the report has passed it, also when an
\* earlier path of the report had no parent.
C18_EveryNewPathRecorded ==
    [][pc = "record" =>
          \A d \in Paths :
              (HasParent(d) /\ \E k \in Kinds : RecordNew(d, k) \/ DropNew(d, k))
                  => d \in ignore']_vars

\* The roots that are the path p or one of its ancestors.
RootsAbove(p) == {R \in Keys(roots) : StartsWith(p, R)}

\* C19: root_for is a function of the set of roots and the path alone: none
\* when no root is the path or an ancestor of it, else the deepest such root;
\* and the root recorded for a dispatch is that one.
C19_NearestRoot ==
    /\ \A P \in Paths :
           RootFor(Keys(roots), P) =
               IF RootsAbove(P) = {} THEN None
               ELSE Some(CHOOSE R \in RootsAbove(P) :
                             \A R2 \in RootsAbove(P) : Len(R2) <= Len(R))
    /\ last.root # None => last.root[1] \in Keys(roots)

\* C19 happens: with the nested roots /m and /m/A, a file under /m/A was sorted
\* under the root /m/A.
C19_Witness ==
    /\ Keys(roots) = {M, MA}
    /\ pc = "endev"
    /\ last.verdict = "sorted"
    /\ last.root = Some(MA)
    /\ MAX \in ignore
    /\ MA \notin ignore

\* C20: a step that adds to the Ignore Set is the recording of a new path d
\* after a successful sort, and adds no more than d and the parent of d where
\* that parent is not the root of the dispatch; no other step adds anything,
\* and the Root Index never changes.
C20_Provenance ==
    [][/\ roots' = roots
       /\ \/ ignore' \subseteq ignore
          \/ /\ pc \in {"cand", "record"}
             /\ last'.verdict \in {"sorted", "recording"}
             /\ last'.root # None
             /\ \E d \in Paths :
                    /\ Exists(fs', d)
                    /\ ignore' \ ignore \subseteq ProducedBy(d, last'.root[1])]_vars

\* C20 happens: the entry /m/A/X has outlived the delivery of its event and the
\* guard /m/A was consumed; the set holds nothing that was not recorded.
C20_Witness ==
    /\ Keys(roots) = {M}
    /\ ignore = {MAX}
    /\ pending = {}
    /\ pc = "recv"
    /\ nEv = 2

====
